---- MODULE Spec2Model ----
(***************************************************************************)
(* Model of the content segmentation pipeline of dias-rag (src/utils.py):  *)
(* parse_frontmatter and the cascading chunker chunk_content with its      *)
(* helpers _split_sentences, _split_at_clauses and _split_at_words.        *)
(*                                                                         *)
(* A Python str is a sequence of one-character strings.  A call's outcome  *)
(* is a record [raised, chunks]: raised = TRUE stands for a Python         *)
(* exception leaving the call (then chunks is <<>>, there is no value).    *)
(***************************************************************************)
EXTENDS Integers, Sequences, FiniteSets, TLC

\* Longest input text over the whole alphabet Chars.
MaxLen == 4
\* Longest input text over one of the small alphabets LongAlphabets.
MaxLong == 6
\* Largest max_chunk_size a call is made with (the smallest is -1).
MaxLimit == 4
\* Longest body _extract_title is called with.
MaxBody == 4
\* Longest paragraph of short sentences chunk_content is called with.
MaxPacked == 7

\* The characters of the input: a lowercase letter, an uppercase letter,
\* blank and newline, a sentence terminator and the three clause delimiters.
Chars == {"a", "B", " ", "\n", ".", ";", ":", ","}

\* The alphabets of the longer texts: sentences that hold clauses and words,
\* clauses under two delimiters, and paragraphs.
LongAlphabets ==
    { {"B", ".", ";", " "},
      {"a", ";", ","},
      {"a", ":", ","},
      {"a", "\n", " "} }

\* The texts the model types in.
IsInput(text) ==
    \/ Len(text) <= MaxLen
    \/ /\ Len(text) <= MaxLong
       /\ \E A \in LongAlphabets : \A i \in 1..Len(text) : text[i] \in A

Limits == (0 - 1)..MaxLimit

\* str.isspace() on the model's characters (what \s, strip() and split() use).
Whitespace == {" ", "\n"}

\* [A-Z] of the sentence pattern.
Uppercase == {"B"}

\* [.!?] of the sentence pattern.
Terminators == {"."}

\* The delimiters of _split_at_clauses, in the order the loop tries them.
Delimiters == <<";", ":", ",">>

IsBlank(s) == \A i \in 1..Len(s) : s[i] \in Whitespace

\* str.lstrip() where the code calls strip(): trailing whitespace is kept.
strip_left_only(s) ==
    IF IsBlank(s) THEN <<>>
    ELSE SubSeq(s, CHOOSE i \in 1..Len(s) :
                      /\ s[i] \notin Whitespace
                      /\ \A j \in 1..(i - 1) : s[j] \in Whitespace,
                Len(s))

\* str.strip()
strip(s) ==
    IF IsBlank(s) THEN <<>>
    ELSE LET first == CHOOSE i \in 1..Len(s) :
                        /\ s[i] \notin Whitespace
                        /\ \A j \in 1..(i - 1) : s[j] \in Whitespace
             last  == CHOOSE i \in 1..Len(s) :
                        /\ s[i] \notin Whitespace
                        /\ \A j \in (i + 1)..Len(s) : s[j] \in Whitespace
         IN  SubSeq(s, first, last)

\* '\n\n'.join(parts): the parts with a blank line between them.
RECURSIVE join_blank_line(_)
join_blank_line(parts) ==
    IF parts = <<>> THEN <<>>
    ELSE IF Len(parts) = 1 THEN parts[1]
    ELSE parts[1] \o <<"\n", "\n">> \o join_blank_line(Tail(parts))

\* ' '.join(parts)
RECURSIVE join(_)
join(parts) ==
    IF parts = <<>> THEN <<>>
    ELSE IF Len(parts) = 1 THEN parts[1]
    ELSE parts[1] \o <<" ">> \o join(Tail(parts))

\* str.split(delimiter): the pieces between the occurrences of delimiter,
\* empty pieces kept.  from is the start of the piece being scanned.
RECURSIVE split_on(_, _, _, _)
split_on(text, delimiter, from, i) ==
    IF i > Len(text) THEN <<SubSeq(text, from, Len(text))>>
    ELSE IF text[i] = delimiter
         THEN <<SubSeq(text, from, i - 1)>> \o split_on(text, delimiter, i + 1, i + 1)
         ELSE split_on(text, delimiter, from, i + 1)

\* str.split(): the maximal runs of non-whitespace characters.
RECURSIVE split_ws(_, _, _)
split_ws(text, from, i) ==
    IF i > Len(text)
    THEN IF from < i THEN <<SubSeq(text, from, Len(text))>> ELSE <<>>
    ELSE IF text[i] \in Whitespace
         THEN (IF from < i THEN <<SubSeq(text, from, i - 1)>> ELSE <<>>)
              \o split_ws(text, i + 1, i + 1)
         ELSE split_ws(text, from, i + 1)

\* content.split('\n\n'): only two newlines side by side separate paragraphs.
RECURSIVE split_paragraphs_plain(_, _, _)
split_paragraphs_plain(content, from, i) ==
    IF i > Len(content) THEN <<SubSeq(content, from, Len(content))>>
    ELSE IF i < Len(content) /\ content[i] = "\n" /\ content[i + 1] = "\n"
         THEN <<SubSeq(content, from, i - 1)>>
                  \o split_paragraphs_plain(content, i + 2, i + 2)
         ELSE split_paragraphs_plain(content, from, i + 1)

\* re.split(r'\n\s*\n', content): a match starts at a newline and, \s* being
\* greedy, ends at the last newline of the whitespace run that follows it.
RECURSIVE split_paragraphs(_, _, _)
split_paragraphs(content, from, i) ==
    IF i > Len(content) THEN <<SubSeq(content, from, Len(content))>>
    ELSE LET ends == {j \in (i + 1)..Len(content) :
                        /\ content[j] = "\n"
                        /\ \A k \in (i + 1)..j : content[k] \in Whitespace}
         IN  IF content[i] = "\n" /\ ends # {}
             THEN LET j == CHOOSE e \in ends : \A f \in ends : f <= e
                  IN  <<SubSeq(content, from, i - 1)>>
                          \o split_paragraphs(content, j + 1, j + 1)
             ELSE split_paragraphs(content, from, i + 1)

\* The split with a sentence pattern that takes any character after the
\* whitespace, r'(?<=[.!?])\s+(?=\S)|(?<=[.!?])$'.
RECURSIVE re_split_sentences_any_case(_, _, _)
re_split_sentences_any_case(text, from, i) ==
    IF i > Len(text) + 1 THEN <<SubSeq(text, from, Len(text))>>
    ELSE LET after == i > 1 /\ text[i - 1] \in Terminators
             runs  == {j \in i..Len(text) :
                         /\ \A k \in i..j : text[k] \in Whitespace
                         /\ j < Len(text)
                         /\ text[j + 1] \notin Whitespace}
             atEnd == i = Len(text) + 1 \/ (i = Len(text) /\ text[i] = "\n")
         IN  IF after /\ runs # {}
             THEN LET j == CHOOSE e \in runs : \A f \in runs : f <= e
                  IN  <<SubSeq(text, from, i - 1)>>
                          \o re_split_sentences_any_case(text, j + 1, j + 1)
             ELSE IF after /\ atEnd
             THEN <<SubSeq(text, from, i - 1)>>
                      \o (IF i > Len(text) THEN <<<<>>>>
                          ELSE re_split_sentences_any_case(text, i, i + 1))
             ELSE re_split_sentences_any_case(text, from, i + 1)

\* re.split(sentence_pattern, text) with
\* sentence_pattern = r'(?<=[.!?])\s+(?=[A-Z])|(?<=[.!?])$': position i (the
\* gap before text[i]) matches the first alternative when a terminator
\* precedes it and the whitespace run starting there is followed by an
\* uppercase letter, and the second (an empty match) when a terminator
\* precedes it and it is the end of text or the gap before a final newline.
RECURSIVE re_split_sentences(_, _, _)
re_split_sentences(text, from, i) ==
    IF i > Len(text) + 1 THEN <<SubSeq(text, from, Len(text))>>
    ELSE LET after == i > 1 /\ text[i - 1] \in Terminators
             runs  == {j \in i..Len(text) :
                         /\ \A k \in i..j : text[k] \in Whitespace
                         /\ j < Len(text)
                         /\ text[j + 1] \in Uppercase}
             atEnd == i = Len(text) + 1 \/ (i = Len(text) /\ text[i] = "\n")
         IN  IF after /\ runs # {}
             THEN LET j == CHOOSE e \in runs : \A f \in runs : f <= e
                  IN  <<SubSeq(text, from, i - 1)>>
                          \o re_split_sentences(text, j + 1, j + 1)
             ELSE IF after /\ atEnd
             THEN <<SubSeq(text, from, i - 1)>>
                      \o (IF i > Len(text) THEN <<<<>>>>
                          ELSE re_split_sentences(text, i, i + 1))
             ELSE re_split_sentences(text, from, i + 1)

\* [s.strip() for s in pieces if s.strip()]
RECURSIVE strip_nonblank(_)
strip_nonblank(pieces) ==
    IF pieces = <<>> THEN <<>>
    ELSE (IF IsBlank(pieces[1]) THEN <<>> ELSE <<strip(pieces[1])>>)
         \o strip_nonblank(Tail(pieces))

split_sentences(text) == strip_nonblank(re_split_sentences(text, 1, 1))

\* The locals of a packing loop: the chunks emitted so far, the buffer
\* current with its running length, and whether an exception was raised.
Start(chunks) ==
    [raised |-> FALSE, chunks |-> chunks, current |-> <<>>, current_length |-> 0]

Raised == [raised |-> TRUE, chunks |-> <<>>, current |-> <<>>, current_length |-> 0]

\* chunks.insert(0, ' '.join(current)): the buffer goes in front of the list.
flush_in_front(st) ==
    IF st.current # <<>> THEN <<join(st.current)>> \o st.chunks ELSE st.chunks

\* chunks.append(' '.join(current)) without the guard "if current:".
flush_always(st) == Append(st.chunks, join(st.current))

\* if current: chunks.append(' '.join(current))
flush(st) ==
    IF st.current # <<>> THEN Append(st.chunks, join(st.current)) ELSE st.chunks

\* The packing step that never joins: every piece starts a chunk of its own.
pack_alone(st, piece, max_size) ==
    [st EXCEPT !.chunks = flush(st),
               !.current = <<piece>>,
               !.current_length = Len(piece)]

\* The packing step with the joining space left out of needed_length.
pack_no_space(st, piece, max_size) ==
    IF st.current_length + Len(piece) > max_size
    THEN [st EXCEPT !.chunks = flush(st),
                    !.current = <<piece>>,
                    !.current_length = Len(piece)]
    ELSE [st EXCEPT !.current = Append(st.current, piece),
                    !.current_length = st.current_length + Len(piece)]

\* The packing step the three loops share:
\*   needed_length = piece_length + (1 if current else 0)
\*   if current_length + needed_length > max_size: flush, current = [piece]
\*   else: current.append(piece); current_length += needed_length
pack(st, piece, max_size) ==
    LET needed_length == Len(piece) + (IF st.current # <<>> THEN 1 ELSE 0)
    IN  IF st.current_length + needed_length > max_size
        THEN [st EXCEPT !.chunks = flush(st),
                        !.current = <<piece>>,
                        !.current_length = Len(piece)]
        ELSE [st EXCEPT !.current = Append(st.current, piece),
                        !.current_length = st.current_length + needed_length]

\* The slices of full length only: the shorter final slice is left out.
RECURSIVE slices_drop_tail(_, _, _)
slices_drop_tail(word, i, max_size) ==
    IF i + max_size > Len(word) THEN <<>>
    ELSE <<SubSeq(word, i + 1, i + max_size)>>
             \o slices_drop_tail(word, i + max_size, max_size)

\* [word[i:i + max_size] for i in range(0, len(word), max_size)], max_size > 0;
\* i is the 0-based offset of the slice.
RECURSIVE slices(_, _, _)
slices(word, i, max_size) ==
    IF i >= Len(word) THEN <<>>
    ELSE LET stop == IF i + max_size < Len(word) THEN i + max_size ELSE Len(word)
         IN  <<SubSeq(word, i + 1, stop)>> \o slices(word, i + max_size, max_size)

\* The hard cut of a word longer than max_size: range(0, len(word), max_size)
\* raises ValueError for a step of 0 and is empty for a negative step.
hard_cut(st, word, max_size) ==
    IF max_size = 0 THEN Raised
    ELSE [st EXCEPT !.chunks = flush(st)
                               \o (IF max_size < 0 THEN <<>>
                                   ELSE slices(word, 0, max_size)),
                    !.current = <<>>,
                    !.current_length = 0]

\* The loop of _split_at_words over words[k..].
RECURSIVE words_loop(_, _, _, _)
words_loop(words, k, st, max_size) ==
    IF st.raised \/ k > Len(words) THEN st
    ELSE words_loop(words, k + 1,
                    IF Len(words[k]) > max_size
                    THEN hard_cut(st, words[k], max_size)
                    ELSE pack(st, words[k], max_size),
                    max_size)

\* _split_at_words(text, max_size)
split_at_words(text, max_size) ==
    LET st == words_loop(split_ws(text, 1, 1), 1, Start(<<>>), max_size)
    IN  IF st.raised THEN Raised ELSE Start(flush(st))

\* The clause loop with the delimiter put back on every part, the last one
\* included.
RECURSIVE clauses_loop_every(_, _, _, _, _)
clauses_loop_every(parts, i, st, delimiter, max_size) ==
    IF st.raised \/ i > Len(parts) THEN st
    ELSE LET stripped == strip(parts[i])
             part == Append(stripped, delimiter)
             word_chunks == split_at_words(part, max_size)
         IN  clauses_loop_every(parts, i + 1,
                 IF stripped = <<>> THEN st
                 ELSE IF Len(part) > max_size
                 THEN (IF word_chunks.raised THEN Raised
                       ELSE Start(flush(st) \o word_chunks.chunks))
                 ELSE pack(st, part, max_size),
                 delimiter, max_size)

\* The loop of _split_at_clauses over parts[i..] (i is 1-based here, so the
\* source's i < len(parts) - 1 reads i < Len(parts)).
RECURSIVE clauses_loop(_, _, _, _, _)
clauses_loop(parts, i, st, delimiter, max_size) ==
    IF st.raised \/ i > Len(parts) THEN st
    ELSE LET stripped == strip(parts[i])
             part == IF i < Len(parts) THEN Append(stripped, delimiter) ELSE stripped
             word_chunks == split_at_words(part, max_size)
         IN  clauses_loop(parts, i + 1,
                 IF stripped = <<>> THEN st
                 ELSE IF Len(part) > max_size
                 THEN (IF word_chunks.raised THEN Raised
                       ELSE Start(flush(st) \o word_chunks.chunks))
                 ELSE pack(st, part, max_size),
                 delimiter, max_size)

\* The delimiter that comes first in the text, whatever its class.
first_delimiter_positional(text) ==
    LET at == {i \in 1..Len(text) :
                 \E d \in 1..Len(Delimiters) : text[i] = Delimiters[d]}
    IN  IF at = {} THEN ""
        ELSE text[CHOOSE i \in at : \A j \in at : i <= j]

\* The first of ';', ':', ',' that occurs in text, "" when none does.
first_delimiter(text) ==
    LET found == {d \in 1..Len(Delimiters) :
                    \E i \in 1..Len(text) : text[i] = Delimiters[d]}
    IN  IF found = {} THEN ""
        ELSE Delimiters[CHOOSE d \in found : \A e \in found : d <= e]

\* _split_at_clauses(text, max_size)
split_at_clauses(text, max_size) ==
    LET delimiter == first_delimiter(text)
        st == clauses_loop(split_on(text, delimiter, 1, 1), 1, Start(<<>>),
                           delimiter, max_size)
    IN  IF delimiter = "" THEN split_at_words(text, max_size)
        ELSE IF st.raised THEN Raised ELSE Start(flush(st))

\* The sentence loop of chunk_content over sentences[i..].
RECURSIVE sentences_loop(_, _, _, _)
sentences_loop(sentences, i, st, max_chunk_size) ==
    IF st.raised \/ i > Len(sentences) THEN st
    ELSE LET sentence == strip(sentences[i])
             sub_chunks == split_at_clauses(sentence, max_chunk_size)
         IN  sentences_loop(sentences, i + 1,
                 IF sentence = <<>> THEN st
                 ELSE IF Len(sentence) > max_chunk_size
                 THEN (IF sub_chunks.raised THEN Raised
                       ELSE Start(flush(st) \o sub_chunks.chunks))
                 ELSE pack(st, sentence, max_chunk_size),
                 max_chunk_size)

\* The paragraph loop of chunk_content over paragraphs[p..]; chunks is the
\* list built so far.
RECURSIVE paragraphs_loop(_, _, _, _)
paragraphs_loop(paragraphs, p, chunks, max_chunk_size) ==
    IF p > Len(paragraphs) THEN Start(chunks)
    ELSE LET paragraph == strip(paragraphs[p])
             st == sentences_loop(split_sentences(paragraph), 1, Start(chunks),
                                  max_chunk_size)
         IN  IF paragraph = <<>>
             THEN paragraphs_loop(paragraphs, p + 1, chunks, max_chunk_size)
             ELSE IF Len(paragraph) <= max_chunk_size
             THEN paragraphs_loop(paragraphs, p + 1, Append(chunks, paragraph),
                                  max_chunk_size)
             ELSE IF st.raised THEN Raised
             ELSE paragraphs_loop(paragraphs, p + 1, flush(st), max_chunk_size)

\* chunk_content with a shortcut for small content: a text that fits the limit
\* is returned trimmed as the one chunk, before any paragraph is looked at.
chunk_content_shortcut(content, max_chunk_size) ==
    IF content = <<>> THEN Start(<<>>)
    ELSE IF Len(content) <= max_chunk_size THEN Start(<<strip(content)>>)
    ELSE paragraphs_loop(split_paragraphs(content, 1, 1), 1, <<>>, max_chunk_size)

\* chunk_content(content, max_chunk_size)
chunk_content(content, max_chunk_size) ==
    IF content = <<>> \/ strip(content) = <<>> THEN Start(<<>>)
    ELSE paragraphs_loop(split_paragraphs(content, 1, 1), 1, <<>>, max_chunk_size)

\* What frontmatter.loads(content) can do: return a post, or raise one of
\* these exceptions (both are subclasses of Exception).
LoadsErrors == {"YAMLError", "TypeError"}

\* The values a parsed metadata block holds, by Python type.
StrVal(s) == [type |-> "str", s |-> s]
IntVal(n) == [type |-> "int", n |-> n]
BoolVal(b) == [type |-> "bool", b |-> b]
NoneVal == [type |-> "NoneType"]
ListVal(l) == [type |-> "list", l |-> l]
FloatVal(n) == [type |-> "float", n |-> n]    \* the float n.0, n >= 0

\* The metadata maps a post can carry, as sets of <<key, value>> pairs.
Metadatas == {{}, {<<"title", StrVal(<<"a">>)>>}}

\* The posts frontmatter.loads(content) can return: the library takes the
\* metadata block off the front, up to the end of a line, and trims the rest.
Posts(text) ==
    {[metadata |-> m, content |-> strip(SubSeq(text, k, Len(text)))] :
        m \in Metadatas,
        k \in {1} \cup {j \in 2..(Len(text) + 1) : text[j - 1] = "\n"}}

\* parse_frontmatter with "except yaml.YAMLError:" for "except Exception:".
parse_frontmatter_narrow(text, outcome, post) ==
    IF outcome = "returns"
    THEN [raised |-> FALSE, metadata |-> post.metadata, content |-> post.content]
    ELSE IF outcome = "YAMLError"
    THEN [raised |-> FALSE, metadata |-> {}, content |-> text]
    ELSE [raised |-> TRUE, metadata |-> {}, content |-> <<>>]

\* parse_frontmatter(content), given what frontmatter.loads did: the post it
\* returned (outcome = "returns") or the exception it raised.
parse_frontmatter(text, outcome, post) ==
    IF outcome = "returns"
    THEN [raised |-> FALSE, metadata |-> post.metadata, content |-> post.content]
    ELSE [raised |-> FALSE, metadata |-> {}, content |-> text]


\* key in d, and d[key], for a dict d given as a set of <<key, value>> pairs.
has_key(d, key) == \E kv \in d : kv[1] = key
get(d, key) == (CHOOSE kv \in d : kv[1] = key)[2]

\* The decimal digits of n >= 0.
RECURSIVE digits(_)
digits(n) ==
    LET d == <<"0", "1", "2", "3", "4", "5", "6", "7", "8", "9">>[(n % 10) + 1]
    IN  IF n < 10 THEN <<d>> ELSE Append(digits(n \div 10), d)

\* repr(s) of a str without quotes or backslashes in it.
repr_str(s) == <<"'">> \o s \o <<"'">>

\* ', '.join(repr(x) for x in l), for a list of such strs
RECURSIVE repr_items(_)
repr_items(l) ==
    IF l = <<>> THEN <<>>
    ELSE IF Len(l) = 1 THEN repr_str(l[1])
    ELSE repr_str(l[1]) \o <<",", " ">> \o repr_items(Tail(l))

\* str(v)
py_str(v) ==
    CASE v.type = "str" -> v.s
      [] v.type = "int" -> IF v.n < 0 THEN <<"-">> \o digits(0 - v.n) ELSE digits(v.n)
      [] v.type = "bool" -> IF v.b THEN <<"T", "r", "u", "e">>
                            ELSE <<"F", "a", "l", "s", "e">>
      [] v.type = "NoneType" -> <<"N", "o", "n", "e">>
      [] v.type = "list" -> <<"[">> \o repr_items(v.l) \o <<"]">>
      [] v.type = "float" -> digits(v.n) \o <<".", "0">>

\* The end of the line that position i is on: '.' and '$' under re.MULTILINE
\* stop before the next newline.
RECURSIVE line_end(_, _)
line_end(text, i) ==
    IF i >= Len(text) \/ text[i + 1] = "\n" THEN i ELSE line_end(text, i + 1)

\* The match of r"^#\s+(.+)$" that starts at position p, as the set of the
\* positions where group 1 can start: after the '#' and one or more
\* whitespace characters, on a character that is not a newline.  \s+ is
\* greedy, so the match takes the largest of them.
h1_group_starts(text, p) ==
    IF ~(text[p] = "#" /\ (p = 1 \/ text[p - 1] = "\n")) THEN {}
    ELSE {g \in (p + 2)..Len(text) :
            /\ \A k \in (p + 1)..(g - 1) : text[k] \in Whitespace
            /\ text[g] # "\n"}

\* re.search(r"^#\s+(.+)$", content, re.MULTILINE): the leftmost match, as
\* [found, group] with group = h1_match.group(1).
re_search_h1(text) ==
    LET at == {p \in 1..Len(text) : h1_group_starts(text, p) # {}}
    IN  IF at = {} THEN [found |-> FALSE, group |-> <<>>]
        ELSE LET p == CHOOSE a \in at : \A b \in at : a <= b
                 starts == h1_group_starts(text, p)
                 g == CHOOSE a \in starts : \A b \in starts : b <= a
             IN  [found |-> TRUE, group |-> SubSeq(text, g, line_end(text, g))]

\* Path(filename).stem: the name up to its last dot, when that dot is neither
\* the first nor the last character.
stem(name) ==
    LET dots == {i \in 1..Len(name) : name[i] = "."}
        i == CHOOSE a \in dots : \A b \in dots : b <= a
    IN  IF dots # {} /\ 1 < i /\ i < Len(name) THEN SubSeq(name, 1, i - 1)
        ELSE name

\* _extract_title(frontmatter, content, filename)
extract_title(frontmatter, text, name) ==
    LET h1_match == re_search_h1(text)
    IN  IF has_key(frontmatter, "title") THEN py_str(get(frontmatter, "title"))
        ELSE IF h1_match.found THEN strip(h1_match.group)
        ELSE stem(name)

\* The characters of the bodies _extract_title is called with.
TitleChars == {"#", " ", "\n", "a"}

\* The frontmatter dicts _extract_title is called with.
TitleMetadatas ==
    { {},
      {<<"draft", BoolVal(TRUE)>>},
      {<<"title", StrVal(<<"a", " ", "b">>)>>},
      {<<"title", StrVal(<<>>)>>, <<"draft", BoolVal(FALSE)>>},
      {<<"title", StrVal(<<" ">>)>>},
      {<<"title", IntVal(42)>>},
      {<<"title", NoneVal>>},
      {<<"title", BoolVal(TRUE)>>},
      {<<"title", ListVal(<<<<"a">>, <<"b">>>>)>>} }

\* The names of the files: whatever rglob("*.md") matches.
Filenames ==
    { <<"a", ".", "m", "d">>,
      <<"a", ".", "b", ".", "m", "d">>,
      <<".", "m", "d">>,
      <<" ", ".", "m", "d">> }

----------------------------------------------------------------------------
\* scan_markdown_files

\* The number of .md files under the directory.
MaxFiles == 2

\* The chunk size scan_markdown_files passes to chunk_content.
ScanChunkSize == 512

\* What open(md_file).read() can raise.
ReadErrors == {"PermissionError", "UnicodeDecodeError"}

\* str(md_file.relative_to(dir_path)) of the files rglob("*.md") finds.
RelativePaths ==
    { <<"a", ".", "m", "d">>,
      <<" ", ".", "m", "d">>,
      <<"s", "/", "a", ".", "m", "d">>,
      <<"s", "/", " ", ".", "m", "d">> }

\* hashlib.md5(relative_path.encode()).hexdigest()
md5_hexdigest(relative_path) ==
    CASE relative_path = <<"a", ".", "m", "d">> -> "b00a1cca9c08ec62a1adc3bac23e10f5"
      [] relative_path = <<" ", ".", "m", "d">> -> "0821a93ef2f4a5b023af5e8b19702413"
      [] relative_path = <<"s", "/", "a", ".", "m", "d">> -> "795b633511237c0161bfd6571b411cd1"
      [] relative_path = <<"s", "/", " ", ".", "m", "d">> -> "d9984aca4045bde60d5a25fc350c6691"

\* md_file.name: the last component of the path.
file_name(path) ==
    LET slashes == {i \in 1..Len(path) : path[i] = "/"}
    IN  IF slashes = {} THEN path
        ELSE SubSeq(path, (CHOOSE a \in slashes : \A b \in slashes : b <= a) + 1, Len(path))

\* The texts of the files.
RawTexts ==
    { <<>>,
      <<"t", "\n", "#", " ", "b">>,
      <<"a", " ", "b", "\n", "\n", "c">> }

\* The post of a file frontmatter.loads did not return one for.
NoPost == [metadata |-> {}, content |-> <<>>]

\* The .md files a directory can hold: the path, what reading it does (the
\* text or an error) and what frontmatter.loads does with the text.
MdFiles ==
    {[path |-> p, read |-> e, raw |-> <<>>, loads |-> "none", post |-> NoPost] :
        p \in RelativePaths, e \in ReadErrors}
    \cup UNION {
        {[path |-> p, read |-> "ok", raw |-> t, loads |-> "returns", post |-> q] :
            p \in RelativePaths, q \in Posts(t)}
        \cup {[path |-> p, read |-> "ok", raw |-> t, loads |-> e, post |-> NoPost] :
            p \in RelativePaths, e \in LoadsErrors} : t \in RawTexts}

\* The body of the for loop with a word count of the raw text.
process_file_raw_words(md_file) ==
    IF md_file.read # "ok" THEN [raised |-> TRUE, doc |-> <<>>]
    ELSE LET parsed == parse_frontmatter(md_file.raw, md_file.loads, md_file.post)
             chunked == chunk_content(parsed.content, ScanChunkSize)
         IN  IF parsed.raised \/ chunked.raised THEN [raised |-> TRUE, doc |-> <<>>]
             ELSE [raised |-> FALSE,
                   doc |-> [id |-> md5_hexdigest(md_file.path),
                            file_path |-> md_file.path,
                            title |-> extract_title(parsed.metadata, parsed.content,
                                                    file_name(md_file.path)),
                            content |-> parsed.content,
                            chunks |-> chunked.chunks,
                            frontmatter |-> parsed.metadata,
                            word_count |-> Len(split_ws(md_file.raw, 1, 1))]]

\* The body of the for loop of scan_markdown_files, inside its try: the
\* Document of md_file, or raised when a statement raises.
process_file(md_file) ==
    IF md_file.read # "ok" THEN [raised |-> TRUE, doc |-> <<>>]
    ELSE LET parsed == parse_frontmatter(md_file.raw, md_file.loads, md_file.post)
             chunked == chunk_content(parsed.content, ScanChunkSize)
         IN  IF parsed.raised \/ chunked.raised THEN [raised |-> TRUE, doc |-> <<>>]
             ELSE [raised |-> FALSE,
                   doc |-> [id |-> md5_hexdigest(md_file.path),
                            file_path |-> md_file.path,
                            title |-> extract_title(parsed.metadata, parsed.content,
                                                    file_name(md_file.path)),
                            content |-> parsed.content,
                            chunks |-> chunked.chunks,
                            frontmatter |-> parsed.metadata,
                            word_count |-> Len(split_ws(parsed.content, 1, 1))]]

\* The for loop with "except ValueError" re-raising: the first failure ends it.
RECURSIVE files_loop_abort(_, _, _)
files_loop_abort(files, i, docs) ==
    IF i > Len(files) THEN docs
    ELSE LET r == process_file(files[i])
         IN  IF r.raised THEN <<>>
             ELSE files_loop_abort(files, i + 1, Append(docs, r.doc))

\* for md_file in md_files: try ... documents.append(doc); except Exception:
\* continue
RECURSIVE files_loop(_, _, _)
files_loop(files, i, docs) ==
    IF i > Len(files) THEN docs
    ELSE LET r == process_file(files[i])
         IN  IF r.raised THEN files_loop(files, i + 1, docs)
             ELSE files_loop(files, i + 1, Append(docs, r.doc))

\* The outcome of a call that raises ValueError(message).
ValueError(message) ==
    [raised |-> TRUE, error |-> "ValueError", message |-> message, documents |-> <<>>]

\* scan_markdown_files(directory): dir_kind is what the path is ("missing",
\* "file" or "dir") and files what rglob("*.md") finds under it.
scan_markdown_files(dir_kind, files) ==
    IF dir_kind = "missing" THEN ValueError("Directory does not exist")
    ELSE IF dir_kind # "dir" THEN ValueError("Path is not a directory")
    ELSE IF files = <<>> THEN ValueError("No markdown files found")
    ELSE LET docs == files_loop(files, 1, <<>>)
         IN  IF docs = <<>> THEN ValueError("Failed to process any markdown files")
             ELSE [raised |-> FALSE, error |-> "none", message |-> "none", documents |-> docs]

----------------------------------------------------------------------------
\* index_documents

\* The number of Documents in the list passed to index_documents.
MaxDocs == 2

\* The names of the collections of the store.
CollectionNames == {"dias_content", "other"}

\* A collection of the store: missing, or there with its entries in the order
\* they were added.
NoCollection == [exists |-> FALSE, entries |-> <<>>]
EmptyCollection == [exists |-> TRUE, entries |-> <<>>]

\* The store under data_dir before anything was indexed: no chroma directory.
NoStore ==
    [chroma_path |-> FALSE, collections |-> [n \in CollectionNames |-> NoCollection]]

\* model.encode(chunks)[i].tolist(): the embedding is a function of the text.
encode(chunk) == [embedding_of |-> chunk]

\* The frontmatter fields of a chunk's metadata: f"fm_{k}": str(v) for the
\* values that are str, int, float or bool.
fm_fields(frontmatter) ==
    {<<"fm_" \o kv[1], StrVal(py_str(kv[2]))>> :
        kv \in {e \in frontmatter : e[2].type \in {"str", "int", "float", "bool"}}}

\* The entry of a chunk with the position counted from 1.
chunk_entry_one_based(doc, i) ==
    [id |-> doc.id \o "_" \o ToString(i + 1),
     document |-> doc.chunks[i + 1],
     embedding |-> encode(doc.chunks[i + 1]),
     metadata |-> [document_id |-> doc.id,
                   file_path |-> doc.file_path,
                   title |-> doc.title,
                   chunk_index |-> i + 1,
                   word_count |-> doc.word_count,
                   fm |-> fm_fields(doc.frontmatter)]]

\* What the inner loop appends for chunk i (from 0) of doc: the id, the
\* text, the embedding and the metadata.
chunk_entry(doc, i) ==
    [id |-> doc.id \o "_" \o ToString(i),
     document |-> doc.chunks[i + 1],
     embedding |-> encode(doc.chunks[i + 1]),
     metadata |-> [document_id |-> doc.id,
                   file_path |-> doc.file_path,
                   title |-> doc.title,
                   chunk_index |-> i,
                   word_count |-> doc.word_count,
                   fm |-> fm_fields(doc.frontmatter)]]

\* for doc in docs: ... for i, (chunk, embedding) in enumerate(...): the
\* batch, with raised set when generate_embeddings raises on a document that
\* has chunks.
RECURSIVE docs_loop(_, _, _, _)
docs_loop(docs, k, batch, encodes) ==
    IF k > Len(docs) THEN [raised |-> FALSE, batch |-> batch]
    ELSE IF docs[k].chunks = <<>> THEN docs_loop(docs, k + 1, batch, encodes)
    ELSE IF ~encodes THEN [raised |-> TRUE, batch |-> <<>>]
    ELSE docs_loop(docs, k + 1,
                   batch \o [i \in 1..Len(docs[k].chunks) |-> chunk_entry(docs[k], i - 1)],
                   encodes)

\* The first steps with get_or_create_collection for delete and create.
open_collection_keep(store, collection_name) ==
    [chroma_path |-> TRUE,
     collections |->
         [store.collections EXCEPT ![collection_name] =
             [exists |-> TRUE, entries |-> store.collections[collection_name].entries]]]

\* os.makedirs(chroma_path, exist_ok=True), client.delete_collection inside
\* try/except, client.create_collection: the directory is there and the
\* collection is new and empty.
open_collection(store, collection_name) ==
    [chroma_path |-> TRUE,
     collections |-> [store.collections EXCEPT ![collection_name] = EmptyCollection]]

\* collection.add(ids, documents, embeddings, metadatas): the store refuses
\* an empty batch and a batch with an id twice or an id it already has.
collection_add(entries, batch) ==
    LET all == entries \o batch
    IN  IF batch = <<>> \/ \E i, j \in 1..Len(all) : i # j /\ all[i].id = all[j].id
        THEN [raised |-> TRUE, entries |-> entries]
        ELSE [raised |-> FALSE, entries |-> all]

\* The outcome of index_documents: raised with the message, or returned; the
\* store it leaves and the calls it made on the store.
IndexOutcome(is_raised, message, store, calls) ==
    [raised |-> is_raised, message |-> message, store |-> store, calls |-> calls]

\* index_documents with the directory made before the list is looked at.
index_documents_late_check(docs, store, collection_name, encodes) ==
    IF docs = <<>>
    THEN IndexOutcome(TRUE, "No documents to index",
                      [store EXCEPT !.chroma_path = TRUE], <<"makedirs">>)
    ELSE LET opened == open_collection(store, collection_name)
             looped == docs_loop(docs, 1, <<>>, encodes)
             added == collection_add(opened.collections[collection_name].entries,
                                     looped.batch)
             calls == <<"makedirs", "PersistentClient", "delete_collection",
                        "create_collection">>
         IN  IF looped.raised THEN IndexOutcome(TRUE, "encode", opened, calls)
             ELSE IF added.raised
             THEN IndexOutcome(TRUE, "add", opened, Append(calls, "add"))
             ELSE IndexOutcome(FALSE, "none",
                               [opened EXCEPT !.collections[collection_name].entries =
                                                  added.entries],
                               Append(calls, "add"))

\* index_documents that builds the whole batch before it touches the store:
\* when generate_embeddings raises, the old collection is still there.
index_documents_embed_first(docs, store, collection_name, encodes) ==
    IF docs = <<>> THEN IndexOutcome(TRUE, "No documents to index", store, <<>>)
    ELSE LET opened == open_collection(store, collection_name)
             looped == docs_loop(docs, 1, <<>>, encodes)
             added == collection_add(opened.collections[collection_name].entries,
                                     looped.batch)
             calls == <<"makedirs", "PersistentClient", "delete_collection",
                        "create_collection">>
         IN  IF looped.raised THEN IndexOutcome(TRUE, "encode", store, <<>>)
             ELSE IF added.raised
             THEN IndexOutcome(TRUE, "add", opened, Append(calls, "add"))
             ELSE IndexOutcome(FALSE, "none",
                               [opened EXCEPT !.collections[collection_name].entries =
                                                  added.entries],
                               Append(calls, "add"))

\* index_documents(docs, data_dir, collection_name) on the store under
\* data_dir; encodes tells whether generate_embeddings returns or raises.
index_documents(docs, store, collection_name, encodes) ==
    IF docs = <<>> THEN IndexOutcome(TRUE, "No documents to index", store, <<>>)
    ELSE LET opened == open_collection(store, collection_name)
             looped == docs_loop(docs, 1, <<>>, encodes)
             added == collection_add(opened.collections[collection_name].entries,
                                     looped.batch)
             calls == <<"makedirs", "PersistentClient", "delete_collection",
                        "create_collection">>
         IN  IF looped.raised THEN IndexOutcome(TRUE, "encode", opened, calls)
             ELSE IF added.raised
             THEN IndexOutcome(TRUE, "add", opened, Append(calls, "add"))
             ELSE IndexOutcome(FALSE, "none",
                               [opened EXCEPT !.collections[collection_name].entries =
                                                  added.entries],
                               Append(calls, "add"))

\* rebuild_index(directory, data_dir, collection_name): scan, then index what
\* the scan returned; a ValueError of the scan leaves the function.  scanned
\* is what scan_markdown_files(directory) did.
rebuild_index(scanned, store, collection_name, encodes) ==
    IF scanned.raised THEN IndexOutcome(TRUE, scanned.message, store, <<>>)
    ELSE index_documents(scanned.documents, store, collection_name, encodes)

\* The frontmatter of the files that are indexed, by path.
IndexMetadata(path) ==
    IF path = <<"a", ".", "m", "d">>
    THEN {<<"title", StrVal(<<"a">>)>>, <<"draft", BoolVal(TRUE)>>,
          <<"tags", ListVal(<<<<"a">>>>)>>}
    ELSE {}

\* The files that are indexed: two paragraphs at either path, or no text.
IndexFiles ==
    {[path |-> p, read |-> "ok", raw |-> <<"a", "\n", "\n", "b">>, loads |-> "returns",
      post |-> [metadata |-> IndexMetadata(p), content |-> <<"a", "\n", "\n", "b">>]] :
        p \in {<<"a", ".", "m", "d">>, <<"s", "/", "a", ".", "m", "d">>}}
    \cup {[path |-> <<"a", ".", "m", "d">>, read |-> "ok", raw |-> <<>>,
            loads |-> "returns", post |-> [metadata |-> {}, content |-> <<>>]]}

\* The Documents index_documents is called with: those of the files.
IndexDocs == {process_file(f).doc : f \in IndexFiles}

\* The lists of Documents it is called with.
DocLists == UNION {[1..k -> IndexDocs] : k \in 0..MaxDocs}

\* The lists of files a directory holds when rebuild_index is called: one
\* file per path.
FileLists ==
    {l \in UNION {[1..k -> IndexFiles] : k \in 0..MaxFiles} :
        \A i, j \in 1..Len(l) : i # j => l[i].path # l[j].path}

----------------------------------------------------------------------------
\* semantic_search

\* The distances of the store are multiples of 1/DistanceSteps: the distance
\* d stands for d / DistanceSteps, and DistanceSteps for 1.0.
DistanceSteps == 2

\* The distances collection.query can return: the cosine distances from 0 to
\* 2, and one step beyond either end for what rounding adds.
Distances == (0 - 1)..(2 * DistanceSteps + 1)

\* The values of limit.
SearchLimits == {1, 2}

\* The queries.
Queries == {<<>>, <<" ">>, <<"a">>, <<" ", "a">>}

UpperLetters ==
    <<"A", "B", "C", "D", "E", "F", "G", "H", "I", "J", "K", "L", "M",
      "N", "O", "P", "Q", "R", "S", "T", "U", "V", "W", "X", "Y", "Z">>
LowerLetters ==
    <<"a", "b", "c", "d", "e", "f", "g", "h", "i", "j", "k", "l", "m",
      "n", "o", "p", "q", "r", "s", "t", "u", "v", "w", "x", "y", "z">>

\* str.lower()
lower(s) ==
    [i \in 1..Len(s) |->
        IF \E k \in 1..26 : UpperLetters[k] = s[i]
        THEN LowerLetters[CHOOSE k \in 1..26 : UpperLetters[k] = s[i]]
        ELSE s[i]]

\* What collection.query(query_embeddings, n_results=limit, include=...) can
\* return for a collection with these entries: the n_results nearest entries
\* (all of them when there are fewer), nearest first, each with its distance.
QueryResults(entries, limit) ==
    LET n == IF limit < Len(entries) THEN limit ELSE Len(entries)
    IN  {hits \in [1..n -> [entry : {entries[e] : e \in 1..Len(entries)},
                            distance : Distances]] :
            /\ \A i, j \in 1..n : i # j => hits[i].entry # hits[j].entry
            /\ \A i \in 1..(n - 1) : hits[i].distance <= hits[i + 1].distance}

\* The score with the distance itself for max(0.0, 1.0 - distance).
score_unclamped(distance) == DistanceSteps - distance

\* score = max(0.0, 1.0 - distance)
score(distance) ==
    IF DistanceSteps - distance > 0 THEN DistanceSteps - distance ELSE 0

\* The draft flag read as "any stored value is true".
draft_any(fields) == has_key(fields, "fm_draft")

\* draft = False; if "fm_draft" in metadata: a bool is taken as it is, a str
\* is true when its lower case is "true", "1" or "yes".
draft(fields) ==
    IF ~has_key(fields, "fm_draft") THEN FALSE
    ELSE LET draft_value == get(fields, "fm_draft")
         IN  IF draft_value.type = "bool" THEN draft_value.b
             ELSE IF draft_value.type = "str"
             THEN lower(draft_value.s) \in {<<"t", "r", "u", "e">>, <<"1">>,
                                            <<"y", "e", "s">>}
             ELSE FALSE

\* The SearchResult of one hit of the store.
search_result(hit) ==
    [document_id |-> hit.entry.metadata.document_id,
     file_path |-> hit.entry.metadata.file_path,
     title |-> hit.entry.metadata.title,
     matched_chunk |-> hit.entry.document,
     score |-> score(hit.distance),
     chunk_index |-> hit.entry.metadata.chunk_index,
     draft |-> draft(hit.entry.metadata.fm)]

\* The outcome of semantic_search: raised with the message, or the results;
\* the calls it made on the store.
SearchOutcome(is_raised, message, results, calls) ==
    [raised |-> is_raised, message |-> message, results |-> results, calls |-> calls]

\* semantic_search with the store looked at before the query.
semantic_search_store_first(q, store, name, hits) ==
    IF ~store.chroma_path THEN SearchOutcome(TRUE, "ChromaDB not found", <<>>, <<>>)
    ELSE IF ~store.collections[name].exists
    THEN SearchOutcome(TRUE, "Collection not found", <<>>,
                       <<"PersistentClient", "get_collection">>)
    ELSE IF q = <<>> \/ strip(q) = <<>>
    THEN SearchOutcome(TRUE, "Query cannot be empty", <<>>,
                       <<"PersistentClient", "get_collection">>)
    ELSE SearchOutcome(FALSE, "none", [i \in 1..Len(hits) |-> search_result(hits[i])],
                       <<"PersistentClient", "get_collection", "query">>)

\* semantic_search(query, limit, data_dir, collection_name) on the store
\* under data_dir; hits is what collection.query returns when it is called.
semantic_search(q, store, name, hits) ==
    IF q = <<>> \/ strip(q) = <<>>
    THEN SearchOutcome(TRUE, "Query cannot be empty", <<>>, <<>>)
    ELSE IF ~store.chroma_path THEN SearchOutcome(TRUE, "ChromaDB not found", <<>>, <<>>)
    ELSE IF ~store.collections[name].exists
    THEN SearchOutcome(TRUE, "Collection not found", <<>>,
                       <<"PersistentClient", "get_collection">>)
    ELSE SearchOutcome(FALSE, "none", [i \in 1..Len(hits) |-> search_result(hits[i])],
                       <<"PersistentClient", "get_collection", "query">>)

\* The values of draft in the frontmatter of the documents searched for.
DraftValues ==
    { BoolVal(TRUE), BoolVal(FALSE), StrVal(<<"y", "e", "s">>), StrVal(<<"Y", "E", "S">>),
      StrVal(<<"n", "o">>), StrVal(<<" ", "1">>), IntVal(1), IntVal(0), FloatVal(1),
      NoneVal, ListVal(<<<<"1">>>>) }

\* The files of the documents searched for: one path, one chunk, with and
\* without a draft key.
DraftFiles ==
    {[path |-> <<"a", ".", "m", "d">>, read |-> "ok", raw |-> <<"a", " ", "b">>,
      loads |-> "returns",
      post |-> [metadata |-> m, content |-> <<"a", " ", "b">>]] :
        m \in {{}} \cup {{<<"draft", v>>} : v \in DraftValues}}

\* The lists index_documents is called with before a search.
DraftDocLists == {<<>>} \cup {<<process_file(f).doc>> : f \in DraftFiles}

\* The list indexed under the other collection name.
OtherDocLists ==
    {<<process_file([path |-> <<"s", "/", "a", ".", "m", "d">>, read |-> "ok",
                     raw |-> <<"c">>, loads |-> "returns",
                     post |-> [metadata |-> {}, content |-> <<"c">>]]).doc>>}

VARIABLES
    content,          \* the text typed in so far: the argument of the call
    pc,               \* "input" while typing, then the function that was called
    max_chunk_size,   \* the limit chunk_content was called with
    chunks,           \* the list chunk_content returned
    raised,           \* TRUE when the call ended in an exception
    loads,            \* what frontmatter.loads did inside parse_frontmatter
    metadata,         \* the frontmatter_dict parse_frontmatter returned
    body,             \* the markdown_content parse_frontmatter returned
    filename,         \* the filename _extract_title is called with
    title,            \* the title _extract_title returned
    directory,        \* what the scanned path is: "missing", "file" or "dir"
    md_files,         \* the .md files under it, in the order rglob yields them
    documents,        \* the Documents scan_markdown_files returned
    error_message,    \* the message of the ValueError a call raised, or "none"
    store,            \* the store under data_dir: the directory and its collections
    old_store,        \* the store as the last call found it
    docs,             \* the list index_documents was called with
    collection_name,  \* the collection_name of the last call
    store_calls,      \* the calls the last call made on the store, in order
    indexed,          \* by collection name: the list last indexed with success
    query,            \* the query semantic_search was called with
    distances,        \* the distances collection.query returned
    search_results    \* the SearchResults semantic_search returned

utilsVars == <<content, pc, max_chunk_size, chunks, raised, loads, metadata, body>>
titleVars == <<filename, title>>
scanVars == <<directory, md_files, documents, error_message>>
indexVars == <<store, old_store, docs, collection_name, store_calls, indexed>>
searchVars == <<query, distances, search_results>>
vars == <<utilsVars, titleVars, scanVars, indexVars, searchVars>>

Init ==
    /\ content = <<>>
    /\ pc = "input"
    /\ max_chunk_size = 0
    /\ chunks = <<>>
    /\ raised = FALSE
    /\ loads = "none"
    /\ metadata = {}
    /\ body = <<>>
    /\ filename = <<>>
    /\ title = <<>>
    /\ directory = "dir"
    /\ md_files = <<>>
    /\ documents = <<>>
    /\ error_message = "none"
    /\ store = NoStore
    /\ old_store = NoStore
    /\ docs = <<>>
    /\ collection_name = "dias_content"
    /\ store_calls = <<>>
    /\ indexed = [n \in CollectionNames |-> <<>>]
    /\ query = <<>>
    /\ distances = <<>>
    /\ search_results = <<>>

\* The caller extends the text by one character.
Type(c) ==
    /\ pc = "input"
    /\ IsInput(Append(content, c))
    /\ content' = Append(content, c)
    /\ UNCHANGED <<pc, max_chunk_size, chunks, raised, loads, metadata, body>>
    /\ UNCHANGED titleVars
    /\ UNCHANGED scanVars
    /\ UNCHANGED indexVars
    /\ UNCHANGED searchVars

\* A call chunk_content(content, limit).
CallChunkContent(limit) ==
    /\ pc = "input"
    /\ \E r \in {chunk_content(content, limit)} :
           /\ chunks' = r.chunks
           /\ raised' = r.raised
    /\ max_chunk_size' = limit
    /\ pc' = "chunk_content"
    /\ UNCHANGED <<content, loads, metadata, body>>
    /\ UNCHANGED titleVars
    /\ UNCHANGED scanVars
    /\ UNCHANGED indexVars
    /\ UNCHANGED searchVars

\* A call parse_frontmatter(content) in which frontmatter.loads returns post.
CallParseFrontmatter(post) ==
    /\ pc = "input"
    /\ \E r \in {parse_frontmatter(content, "returns", post)} :
           /\ raised' = r.raised
           /\ metadata' = r.metadata
           /\ body' = r.content
    /\ loads' = "returns"
    /\ pc' = "parse_frontmatter"
    /\ UNCHANGED <<content, max_chunk_size, chunks>>
    /\ UNCHANGED titleVars
    /\ UNCHANGED scanVars
    /\ UNCHANGED indexVars
    /\ UNCHANGED searchVars

\* A call parse_frontmatter(content) in which frontmatter.loads raises error.
CallParseFrontmatterFailing(error) ==
    /\ pc = "input"
    /\ \E r \in {parse_frontmatter(content, error, [metadata |-> {}, content |-> <<>>])} :
           /\ raised' = r.raised
           /\ metadata' = r.metadata
           /\ body' = r.content
    /\ loads' = error
    /\ pc' = "parse_frontmatter"
    /\ UNCHANGED <<content, max_chunk_size, chunks>>
    /\ UNCHANGED titleVars
    /\ UNCHANGED scanVars
    /\ UNCHANGED indexVars
    /\ UNCHANGED searchVars

Next ==
    \/ \E c \in Chars : Type(c)
    \/ \E limit \in Limits : CallChunkContent(limit)
    \/ \E post \in Posts(content) : CallParseFrontmatter(post)
    \/ \E error \in LoadsErrors : CallParseFrontmatterFailing(error)

Spec == Init /\ [][Next]_vars

\* A direct call _split_at_clauses(content, limit).
CallSplitAtClauses(limit) ==
    /\ pc = "input"
    /\ \E r \in {split_at_clauses(content, limit)} :
           /\ chunks' = r.chunks
           /\ raised' = r.raised
    /\ max_chunk_size' = limit
    /\ pc' = "_split_at_clauses"
    /\ UNCHANGED <<content, loads, metadata, body>>
    /\ UNCHANGED titleVars
    /\ UNCHANGED scanVars
    /\ UNCHANGED indexVars
    /\ UNCHANGED searchVars

\* A direct call _split_sentences(content); the list it returns is kept in
\* chunks.
CallSplitSentences ==
    /\ pc = "input"
    /\ chunks' = split_sentences(content)
    /\ raised' = FALSE
    /\ pc' = "_split_sentences"
    /\ UNCHANGED <<content, max_chunk_size, loads, metadata, body>>
    /\ UNCHANGED titleVars
    /\ UNCHANGED scanVars
    /\ UNCHANGED indexVars
    /\ UNCHANGED searchVars

NextHelpers ==
    \/ \E c \in Chars : Type(c)
    \/ \E limit \in Limits : CallSplitAtClauses(limit)
    \/ CallSplitSentences

\* The private helpers of the chunker, called on their own.
SpecHelpers == Init /\ [][NextHelpers]_vars

\* The characters of a paragraph of short sentences: an uppercase letter, a
\* terminator and the blank.
SentenceChars == {"B", ".", " "}

\* The caller extends a paragraph of sentences by one character.
TypeSentence(c) ==
    /\ pc = "input"
    /\ Len(content) < MaxPacked
    /\ content' = Append(content, c)
    /\ UNCHANGED <<pc, max_chunk_size, chunks, raised, loads, metadata, body>>
    /\ UNCHANGED titleVars
    /\ UNCHANGED scanVars
    /\ UNCHANGED indexVars
    /\ UNCHANGED searchVars

NextPacking ==
    \/ \E c \in SentenceChars : TypeSentence(c)
    \/ \E limit \in Limits : CallChunkContent(limit)

\* chunk_content called on one paragraph of sentences.
SpecPacking == Init /\ [][NextPacking]_vars

----------------------------------------------------------------------------
\* _extract_title on its own: the caller picks a frontmatter dict and a
\* filename, types a body and calls it.

InitTitle ==
    /\ content = <<>>
    /\ pc = "input"
    /\ max_chunk_size = 0
    /\ chunks = <<>>
    /\ raised = FALSE
    /\ loads = "none"
    /\ metadata \in TitleMetadatas
    /\ body = <<>>
    /\ filename \in Filenames
    /\ title = <<>>
    /\ directory = "dir"
    /\ md_files = <<>>
    /\ documents = <<>>
    /\ error_message = "none"
    /\ store = NoStore
    /\ old_store = NoStore
    /\ docs = <<>>
    /\ collection_name = "dias_content"
    /\ store_calls = <<>>
    /\ indexed = [n \in CollectionNames |-> <<>>]
    /\ query = <<>>
    /\ distances = <<>>
    /\ search_results = <<>>

\* The caller extends the body by one character.
TypeBody(c) ==
    /\ pc = "input"
    /\ Len(body) < MaxBody
    /\ body' = Append(body, c)
    /\ UNCHANGED <<content, pc, max_chunk_size, chunks, raised, loads, metadata>>
    /\ UNCHANGED titleVars
    /\ UNCHANGED scanVars
    /\ UNCHANGED indexVars
    /\ UNCHANGED searchVars

\* A call _extract_title(metadata, body, filename).
CallExtractTitle ==
    /\ pc = "input"
    /\ title' = extract_title(metadata, body, filename)
    /\ pc' = "_extract_title"
    /\ UNCHANGED <<content, max_chunk_size, chunks, raised, loads, metadata, body>>
    /\ UNCHANGED filename
    /\ UNCHANGED scanVars
    /\ UNCHANGED indexVars
    /\ UNCHANGED searchVars

NextTitle ==
    \/ \E c \in TitleChars : TypeBody(c)
    \/ CallExtractTitle

SpecTitle == InitTitle /\ [][NextTitle]_vars

----------------------------------------------------------------------------
\* scan_markdown_files: a path that is missing, a file or a directory, .md
\* files put under the directory, then the scan.

InitScan ==
    /\ content = <<>>
    /\ pc = "input"
    /\ max_chunk_size = 0
    /\ chunks = <<>>
    /\ raised = FALSE
    /\ loads = "none"
    /\ metadata = {}
    /\ body = <<>>
    /\ filename = <<>>
    /\ title = <<>>
    /\ directory \in {"missing", "file", "dir"}
    /\ md_files = <<>>
    /\ documents = <<>>
    /\ error_message = "none"
    /\ store = NoStore
    /\ old_store = NoStore
    /\ docs = <<>>
    /\ collection_name = "dias_content"
    /\ store_calls = <<>>
    /\ indexed = [n \in CollectionNames |-> <<>>]
    /\ query = <<>>
    /\ distances = <<>>
    /\ search_results = <<>>

\* One more .md file under the directory, at a path no other file has.
AddFile(md_file) ==
    /\ pc = "input"
    /\ directory = "dir"
    /\ Len(md_files) < MaxFiles
    /\ \A i \in 1..Len(md_files) : md_files[i].path # md_file.path
    /\ md_files' = Append(md_files, md_file)
    /\ UNCHANGED utilsVars
    /\ UNCHANGED titleVars
    /\ UNCHANGED <<directory, documents, error_message>>
    /\ UNCHANGED indexVars
    /\ UNCHANGED searchVars

\* A call scan_markdown_files(directory).
CallScanMarkdownFiles ==
    /\ pc = "input"
    /\ \E r \in {scan_markdown_files(directory, md_files)} :
           /\ raised' = r.raised
           /\ error_message' = r.message
           /\ documents' = r.documents
    /\ pc' = "scan_markdown_files"
    /\ UNCHANGED <<content, max_chunk_size, chunks, loads, metadata, body>>
    /\ UNCHANGED titleVars
    /\ UNCHANGED <<directory, md_files>>
    /\ UNCHANGED indexVars
    /\ UNCHANGED searchVars

NextScan ==
    \/ \E md_file \in MdFiles : AddFile(md_file)
    \/ CallScanMarkdownFiles

SpecScan == InitScan /\ [][NextScan]_vars

----------------------------------------------------------------------------
\* index_documents and rebuild_index, called again and again on one data_dir
\* and one collection name.

InitIndex ==
    /\ content = <<>>
    /\ pc = "input"
    /\ max_chunk_size = 0
    /\ chunks = <<>>
    /\ raised = FALSE
    /\ loads = "none"
    /\ metadata = {}
    /\ body = <<>>
    /\ filename = <<>>
    /\ title = <<>>
    /\ directory = "dir"
    /\ md_files = <<>>
    /\ documents = <<>>
    /\ error_message = "none"
    /\ store = NoStore
    /\ old_store = NoStore
    /\ docs = <<>>
    /\ collection_name = "dias_content"
    /\ store_calls = <<>>
    /\ indexed = [n \in CollectionNames |-> <<>>]
    /\ query = <<>>
    /\ distances = <<>>
    /\ search_results = <<>>

\* A call index_documents(ds, data_dir, name) in which generate_embeddings
\* returns (encodes) or raises.
CallIndexDocuments(ds, name, encodes) ==
    /\ \E r \in {index_documents(ds, store, name, encodes)} :
           /\ raised' = r.raised
           /\ error_message' = r.message
           /\ store' = r.store
           /\ store_calls' = r.calls
           /\ indexed' = IF r.raised THEN indexed ELSE [indexed EXCEPT ![name] = ds]
    /\ old_store' = store
    /\ docs' = ds
    /\ collection_name' = name
    /\ pc' = "index_documents"
    /\ UNCHANGED <<content, max_chunk_size, chunks, loads, metadata, body>>
    /\ UNCHANGED titleVars
    /\ UNCHANGED <<directory, md_files, documents>>
    /\ query' = <<>>
    /\ distances' = <<>>
    /\ search_results' = <<>>

\* A call rebuild_index(directory, data_dir, name) on a directory that holds
\* files.
CallRebuildIndex(files, name, encodes) ==
    /\ \E scanned \in {scan_markdown_files(directory, files)} :
           /\ documents' = scanned.documents
           /\ docs' = scanned.documents
           /\ \E r \in {rebuild_index(scanned, store, name, encodes)} :
                  /\ raised' = r.raised
                  /\ error_message' = r.message
                  /\ store' = r.store
                  /\ store_calls' = r.calls
                  /\ indexed' = IF r.raised THEN indexed
                                ELSE [indexed EXCEPT ![name] = scanned.documents]
    /\ md_files' = files
    /\ old_store' = store
    /\ collection_name' = name
    /\ pc' = "rebuild_index"
    /\ UNCHANGED <<content, max_chunk_size, chunks, loads, metadata, body>>
    /\ UNCHANGED titleVars
    /\ UNCHANGED directory
    /\ query' = <<>>
    /\ distances' = <<>>
    /\ search_results' = <<>>

NextIndex ==
    \/ \E ds \in DocLists, encodes \in BOOLEAN :
           CallIndexDocuments(ds, "dias_content", encodes)
    \/ \E files \in FileLists, encodes \in BOOLEAN :
           CallRebuildIndex(files, "dias_content", encodes)

SpecIndex == InitIndex /\ [][NextIndex]_vars

----------------------------------------------------------------------------
\* semantic_search on a store that index_documents has or has not filled.

InitSearch ==
    /\ content = <<>>
    /\ pc = "input"
    /\ max_chunk_size = 0
    /\ chunks = <<>>
    /\ raised = FALSE
    /\ loads = "none"
    /\ metadata = {}
    /\ body = <<>>
    /\ filename = <<>>
    /\ title = <<>>
    /\ directory = "dir"
    /\ md_files = <<>>
    /\ documents = <<>>
    /\ error_message = "none"
    /\ store = NoStore
    /\ old_store = NoStore
    /\ docs = <<>>
    /\ collection_name = "dias_content"
    /\ store_calls = <<>>
    /\ indexed = [n \in CollectionNames |-> <<>>]
    /\ query = <<>>
    /\ distances = <<>>
    /\ search_results = <<>>

\* A call semantic_search(q, limit, data_dir, name) in which the store, when
\* it is queried, returns hits.
CallSemanticSearch(q, limit, name, hits) ==
    /\ hits \in QueryResults(store.collections[name].entries, limit)
    /\ \E r \in {semantic_search(q, store, name, hits)} :
           /\ raised' = r.raised
           /\ error_message' = r.message
           /\ search_results' = r.results
           /\ store_calls' = r.calls
           /\ distances' = IF r.raised THEN <<>>
                           ELSE [i \in 1..Len(hits) |-> hits[i].distance]
    /\ query' = q
    /\ collection_name' = name
    /\ old_store' = store
    /\ pc' = "semantic_search"
    /\ UNCHANGED <<content, max_chunk_size, chunks, loads, metadata, body>>
    /\ UNCHANGED titleVars
    /\ UNCHANGED <<directory, md_files, documents>>
    /\ UNCHANGED <<store, docs, indexed>>

NextSearch ==
    \/ \E ds \in DraftDocLists, encodes \in BOOLEAN :
           CallIndexDocuments(ds, "dias_content", encodes)
    \/ \E ds \in OtherDocLists : CallIndexDocuments(ds, "other", TRUE)
    \/ \E q \in Queries, limit \in SearchLimits, name \in CollectionNames :
           \E hits \in QueryResults(store.collections[name].entries, limit) :
               CallSemanticSearch(q, limit, name, hits)

SpecSearch == InitSearch /\ [][NextSearch]_vars

----------------------------------------------------------------------------
\* Vocabulary of the properties.

Called == pc = "chunk_content"

\* The non-whitespace characters of s, in order.
NonWs(s) == SelectSeq(s, LAMBDA c : c \notin Whitespace)

\* The chunks one after the other, nothing in between.
RECURSIVE Concat(_)
Concat(list) == IF list = <<>> THEN <<>> ELSE list[1] \o Concat(Tail(list))

\* s without its leading and trailing whitespace.
RECURSIVE Trim(_)
Trim(s) ==
    IF s = <<>> THEN <<>>
    ELSE IF s[1] \in Whitespace THEN Trim(Tail(s))
    ELSE IF s[Len(s)] \in Whitespace THEN Trim(SubSeq(s, 1, Len(s) - 1))
    ELSE s

\* A single word: no whitespace and no clause delimiter.
IsWord(s) == \A i \in 1..Len(s) : s[i] \notin Whitespace \cup {";", ":", ","}

\* s has a paragraph break between two of its non-whitespace characters: two
\* newlines with only whitespace between them.
HasParagraphBreak(s) ==
    \E i, j \in 1..Len(s) :
        /\ i < j
        /\ s[i] = "\n"
        /\ s[j] = "\n"
        /\ \A k \in i..j : s[k] \in Whitespace
        /\ \E a \in 1..(i - 1) : s[a] \notin Whitespace
        /\ \E b \in (j + 1)..Len(s) : s[b] \notin Whitespace

----------------------------------------------------------------------------
\* C1: for every body and every limit > 0, every chunk chunk_content returns
\* has at most limit characters, whichever level of the cascade produced it.
ChunksFitLimit ==
    Called /\ max_chunk_size > 0 =>
        \A i \in 1..Len(chunks) : Len(chunks[i]) <= max_chunk_size

\* An over-limit text whose pieces were packed into a chunk of exactly limit
\* characters (pieces joined by a space), followed or preceded by other chunks.
ChunksFitLimitWitness ==
    /\ Called
    /\ max_chunk_size > 0
    /\ Len(content) > max_chunk_size
    /\ Len(chunks) >= 2
    /\ \E i \in 1..Len(chunks) :
           /\ Len(chunks[i]) = max_chunk_size
           /\ \E k \in 1..Len(chunks[i]) : chunks[i][k] = " "

\* C2: for every body and every limit > 0 the chunks, joined by single
\* spaces, hold every non-whitespace character of body, in order, exactly
\* once; no clause delimiter of an over-limit sentence is lost.
ContentPreserved ==
    Called /\ max_chunk_size > 0 => NonWs(join(chunks)) = NonWs(content)

\* C3 as claimed: a body no longer than limit comes back as [trim(body)].
SmallBodyIsOneChunk ==
    Called /\ Len(content) <= max_chunk_size =>
        ~raised /\ chunks = <<Trim(content)>>

\* C3, amended: a body no longer than limit that has a non-whitespace
\* character and no paragraph break between its non-whitespace characters
\* comes back as the one-element list [trim(body)].
SmallParagraphIsOneChunk ==
    Called /\ Len(content) <= max_chunk_size
           /\ ~IsBlank(content) /\ ~HasParagraphBreak(content) =>
        ~raised /\ chunks = <<Trim(content)>>

\* A small body with whitespace around it and a single newline inside it.
SmallParagraphWitness ==
    /\ Called
    /\ Len(content) <= max_chunk_size
    /\ ~IsBlank(content) /\ ~HasParagraphBreak(content)
    /\ content[1] \in Whitespace
    /\ \E i \in 2..(Len(content) - 1) :
           /\ content[i] = "\n"
           /\ content[i - 1] \notin Whitespace
           /\ content[i + 1] \notin Whitespace
    /\ chunks = <<Trim(content)>>

\* C4: chunk_content never fails, whatever the body and the integer limit,
\* limits of 0 and below included.
NeverRaises == Called => ~raised

\* C5: for every body and every limit > 0, no chunk is empty or only
\* whitespace.
NoBlankChunk ==
    Called /\ max_chunk_size > 0 =>
        \A i \in 1..Len(chunks) : ~IsBlank(chunks[i])

\* An over-limit sentence with an empty clause (two delimiters side by side)
\* that was split into chunks.
NoBlankChunkWitness ==
    /\ Called
    /\ max_chunk_size > 0
    /\ Len(content) > max_chunk_size
    /\ \A i \in 1..Len(content) : content[i] \in {"a", ";", ","}
    /\ \E i \in 1..(Len(content) - 1) : content[i] = ";" /\ content[i + 1] = ";"
    /\ Len(chunks) >= 2

\* C6: for every limit, an empty or all-whitespace body gives [].
BlankGivesNoChunks ==
    Called /\ IsBlank(content) => ~raised /\ chunks = <<>>

\* A body of blanks and newlines chunked under a limit it fits in.
BlankGivesNoChunksWitness ==
    /\ Called
    /\ IsBlank(content)
    /\ \E i, j \in 1..Len(content) : content[i] = " " /\ content[j] = "\n"
    /\ Len(content) <= max_chunk_size
    /\ chunks = <<>>

\* C7: a single word of n > limit characters, limit > 0, is cut into
\* ceil(n / limit) slices, all of limit characters but the last, which has
\* n - limit * (k - 1), and the slices concatenated are the word.
WordIsHardCut ==
    Called /\ max_chunk_size > 0 /\ IsWord(content)
           /\ Len(content) > max_chunk_size =>
        LET n == Len(content)
            k == (n + max_chunk_size - 1) \div max_chunk_size
        IN  /\ ~raised
            /\ Len(chunks) = k
            /\ \A i \in 1..(k - 1) : Len(chunks[i]) = max_chunk_size
            /\ Len(chunks[k]) = n - max_chunk_size * (k - 1)
            /\ Concat(chunks) = content

\* A word cut into three slices, the last one shorter than the limit.
WordIsHardCutWitness ==
    /\ Called
    /\ max_chunk_size > 0
    /\ IsWord(content)
    /\ Len(chunks) = 3
    /\ Len(chunks[3]) < max_chunk_size
    /\ Concat(chunks) = content

\* The paragraphs of s, read off its characters: a paragraph starts at a
\* non-whitespace character with nothing but whitespace before it, or with
\* two newlines in the whitespace right before it, and ends the same way.
ParagraphStarts(s) ==
    {i \in 1..Len(s) :
        /\ s[i] \notin Whitespace
        /\ \/ \A k \in 1..(i - 1) : s[k] \in Whitespace
           \/ \E k1, k2 \in 1..(i - 1) :
                  /\ k1 < k2
                  /\ s[k1] = "\n" /\ s[k2] = "\n"
                  /\ \A k \in k1..(i - 1) : s[k] \in Whitespace}

ParagraphEnds(s) ==
    {j \in 1..Len(s) :
        /\ s[j] \notin Whitespace
        /\ \/ \A k \in (j + 1)..Len(s) : s[k] \in Whitespace
           \/ \E k1, k2 \in (j + 1)..Len(s) :
                  /\ k1 < k2
                  /\ s[k1] = "\n" /\ s[k2] = "\n"
                  /\ \A k \in (j + 1)..k2 : s[k] \in Whitespace}

\* The trimmed paragraphs of s that start at or after position from, in order.
RECURSIVE ParagraphsFrom(_, _)
ParagraphsFrom(s, from) ==
    LET starts == {i \in ParagraphStarts(s) : i >= from}
    IN  IF starts = {} THEN <<>>
        ELSE LET i == CHOOSE a \in starts : \A b \in starts : a <= b
                 ends == {j \in ParagraphEnds(s) : j >= i}
                 j == CHOOSE a \in ends : \A b \in ends : a <= b
             IN  <<SubSeq(s, i, j)>> \o ParagraphsFrom(s, j + 1)

\* What the paragraphs must give: a paragraph that fits the limit is one
\* chunk, itself; a longer one gives the chunks it gives on its own.
RECURSIVE ChunksOfParagraphs(_, _)
ChunksOfParagraphs(paragraphs, limit) ==
    IF paragraphs = <<>> THEN <<>>
    ELSE (IF Len(paragraphs[1]) <= limit THEN <<paragraphs[1]>>
          ELSE chunk_content(paragraphs[1], limit).chunks)
         \o ChunksOfParagraphs(Tail(paragraphs), limit)

\* a is b with some characters left out.
RECURSIVE IsSubsequence(_, _)
IsSubsequence(a, b) ==
    IF a = <<>> THEN TRUE
    ELSE IF b = <<>> THEN FALSE
    ELSE IF a[1] = b[1] THEN IsSubsequence(Tail(a), Tail(b))
    ELSE IsSubsequence(a, Tail(b))

----------------------------------------------------------------------------
\* C8: every blank-line-separated paragraph whose trimmed length is at most
\* limit gives exactly one chunk, the trimmed paragraph; paragraphs are never
\* merged, even when together they fit the limit, and whitespace between or
\* around paragraphs gives no chunk.
ParagraphsAreChunks ==
    Called /\ ~raised =>
        chunks = ChunksOfParagraphs(ParagraphsFrom(content, 1), max_chunk_size)

\* Two paragraphs that would fit the limit together, kept as two chunks.
ParagraphsAreChunksWitness ==
    /\ Called
    /\ Len(content) <= max_chunk_size
    /\ Len(ParagraphsFrom(content, 1)) = 2
    /\ Len(chunks) = 2
    /\ chunks[1] # chunks[2]

\* C9: for limit > 0 the chunks come in the left-to-right order of body with
\* nothing added: their non-whitespace characters, in emission order, are a
\* subsequence of the non-whitespace characters of body.
ChunksInBodyOrder ==
    Called /\ max_chunk_size > 0 =>
        IsSubsequence(NonWs(Concat(chunks)), NonWs(content))

\* Three chunks or more, the first three with no two neighbours alike, from
\* a body with a sentence break in it.
ChunksInBodyOrderWitness ==
    /\ Called
    /\ max_chunk_size > 0
    /\ Len(chunks) >= 3
    /\ chunks[1] # chunks[2]
    /\ chunks[2] # chunks[3]
    /\ \E i \in 1..(Len(content) - 2) :
           content[i] = "." /\ content[i + 1] = " " /\ content[i + 2] = "B"

\* C10: parse_frontmatter never raises; whenever frontmatter.loads raises, it
\* returns an empty metadata map and the input text unchanged.
FrontmatterFailsLocally ==
    pc = "parse_frontmatter" =>
        /\ ~raised
        /\ loads # "returns" => metadata = {} /\ body = content

\* The parser failed on a text with whitespace at both ends, and the text
\* came back untrimmed.
FrontmatterFailsLocallyWitness ==
    /\ pc = "parse_frontmatter"
    /\ loads \in LoadsErrors
    /\ Len(content) >= 3
    /\ content[1] \in Whitespace
    /\ content[Len(content)] \in Whitespace
    /\ ~IsBlank(content)
    /\ body = content

----------------------------------------------------------------------------
\* Vocabulary of the title properties.

TitleCalled == pc = "_extract_title"

\* The value under "title", when the metadata has one.
HasTitle(d) == \E kv \in d : kv[1] = "title"
TitleOf(d) == (CHOOSE kv \in d : kv[1] = "title")[2]

\* The text Python prints for the values of the model.
Printed(v) ==
    IF v = StrVal(<<"a", " ", "b">>) THEN <<"a", " ", "b">>
    ELSE IF v = StrVal(<<>>) THEN <<>>
    ELSE IF v = StrVal(<<" ">>) THEN <<" ">>
    ELSE IF v = IntVal(42) THEN <<"4", "2">>
    ELSE IF v = NoneVal THEN <<"N", "o", "n", "e">>
    ELSE IF v = BoolVal(TRUE) THEN <<"T", "r", "u", "e">>
    ELSE <<"[", "'", "a", "'", ",", " ", "'", "b", "'", "]">>

\* name without its extension: the part from the last dot on, unless that dot
\* starts or ends the name.
WithoutExtension(name) ==
    LET RECURSIVE CutAt(_)
        CutAt(i) == IF i <= 1 THEN name
                    ELSE IF name[i] = "." THEN SubSeq(name, 1, i - 1)
                    ELSE CutAt(i - 1)
    IN  IF name = <<>> \/ name[Len(name)] = "." THEN name ELSE CutAt(Len(name))

\* The first line of s that begins with '#' and a whitespace character, as
\* [found, text]: text is what follows the '#' on that line.
FirstHeading(s) ==
    LET starts == {i \in 1..Len(s) :
                     /\ i = 1 \/ s[i - 1] = "\n"
                     /\ s[i] = "#"
                     /\ i < Len(s)
                     /\ s[i + 1] \in Whitespace}
    IN  IF starts = {} THEN [found |-> FALSE, text |-> <<>>]
        ELSE LET i == CHOOSE a \in starts : \A b \in starts : a <= b
                 ends == {j \in i..Len(s) : j = Len(s) \/ s[j + 1] = "\n"}
                 j == CHOOSE a \in ends : \A b \in ends : a <= b
             IN  [found |-> TRUE, text |-> SubSeq(s, i + 1, j)]

----------------------------------------------------------------------------
\* C11: _extract_title takes the first of three sources: the metadata's
\* 'title' coerced to a string, even when the body has a heading; else the
\* trimmed text of the body's first top-level heading line; else the filename
\* without its extension.
TitlePriority ==
    TitleCalled =>
        IF HasTitle(metadata) THEN title = Printed(TitleOf(metadata))
        ELSE IF FirstHeading(body).found THEN title = Trim(FirstHeading(body).text)
        ELSE title = WithoutExtension(filename)

\* C12: for every metadata map, body and non-empty filename the title is
\* non-empty and non-blank, whichever source supplied it.
TitleNonBlank ==
    TitleCalled /\ filename # <<>> => ~IsBlank(title)

----------------------------------------------------------------------------
\* Vocabulary of the scan properties.

ScanCalled == pc = "scan_markdown_files"

\* The files of the list that can be read, in the order of the list.
Readable(files) == SelectSeq(files, LAMBDA f : f.read = "ok")

\* The number of whitespace-separated words of s: the positions where a word
\* starts.
WordCount(s) ==
    Cardinality({i \in 1..Len(s) :
                   s[i] \notin Whitespace /\ (i = 1 \/ s[i - 1] \in Whitespace)})

\* The messages of the ValueErrors of scan_markdown_files.
ScanMessages ==
    { "Directory does not exist", "Path is not a directory",
      "No markdown files found", "Failed to process any markdown files" }

----------------------------------------------------------------------------
\* C13: every Document scan_markdown_files builds is its file parsed, titled
\* and chunked in that order: with (metadata, body) the parse of the raw text,
\* content = body, frontmatter = metadata, title = _extract_title(metadata,
\* body, filename), chunks = chunk_content(body, 512) and word_count = the
\* number of words of body, not of the raw text.
ScanComposition ==
    ScanCalled /\ ~raised =>
        \A i \in 1..Len(documents) :
            \E k \in 1..Len(md_files) :
                LET f == md_files[k]
                    parsed == parse_frontmatter(f.raw, f.loads, f.post)
                IN  /\ f.path = documents[i].file_path
                    /\ f.read = "ok"
                    /\ documents[i].content = parsed.content
                    /\ documents[i].frontmatter = parsed.metadata
                    /\ documents[i].title =
                           extract_title(parsed.metadata, parsed.content, file_name(f.path))
                    /\ documents[i].chunks = chunk_content(parsed.content, 512).chunks
                    /\ documents[i].word_count = WordCount(parsed.content)

\* A scanned file whose metadata block was taken off: the body is shorter
\* than the raw text and has fewer words, and the title is the metadata's.
ScanCompositionWitness ==
    /\ ScanCalled
    /\ ~raised
    /\ \E i \in 1..Len(documents) :
           /\ md_files[i].raw = <<"t", "\n", "#", " ", "b">>
           /\ documents[i].content = <<"#", " ", "b">>
           /\ documents[i].frontmatter # {}
           /\ documents[i].title = <<"a">>
           /\ documents[i].chunks = <<documents[i].content>>
           /\ documents[i].word_count = 2

\* C16: a failure on one .md file never aborts the scan: the call returns a
\* non-empty list with exactly one Document per file that was processed, or
\* it raises ValueError because the directory is missing, is not a directory,
\* has no .md file or has only files that failed; it never returns an empty
\* list.
ScanIsolatesFailures ==
    ScanCalled =>
        IF directory # "dir" \/ Readable(md_files) = <<>>
        THEN raised /\ error_message \in ScanMessages /\ documents = <<>>
        ELSE /\ ~raised
             /\ documents # <<>>
             /\ Len(documents) = Len(Readable(md_files))
             /\ \A i \in 1..Len(documents) :
                    documents[i].file_path = Readable(md_files)[i].path

\* A scan over a file that cannot be read and a file that can: one Document.
ScanIsolatesFailuresWitness ==
    /\ ScanCalled
    /\ ~raised
    /\ Len(md_files) = 2
    /\ md_files[1].read = "PermissionError"
    /\ Len(documents) = 1
    /\ documents[1].file_path = md_files[2].path

----------------------------------------------------------------------------
\* Vocabulary of the index properties.

\* A call of index_documents, on its own or from rebuild_index, has returned.
IndexReturned == pc \in {"index_documents", "rebuild_index"} /\ ~raised

\* The entries of the collection the last call named.
Entries == store.collections[collection_name].entries

\* The id of chunk i (from 0) of a document.
ChunkId(doc, i) == doc.id \o "_" \o ToString(i)

\* The number of chunks of the documents of a list.
RECURSIVE TotalChunks(_)
TotalChunks(list) ==
    IF list = <<>> THEN 0 ELSE Len(list[1].chunks) + TotalChunks(Tail(list))

----------------------------------------------------------------------------
\* C14: for every document d with chunks and every position i from 0 in
\* d.chunks, index_documents stores exactly one entry with the id d.id_i, the
\* text d.chunks[i] and the metadata document_id = d.id and chunk_index = i;
\* when the document ids are pairwise distinct, so are the stored chunk ids.
ChunkIdsAndIndexes ==
    IndexReturned =>
        /\ \A k \in 1..Len(docs) :
               \A i \in 0..(Len(docs[k].chunks) - 1) :
                   LET at == {e \in 1..Len(Entries) : Entries[e].id = ChunkId(docs[k], i)}
                   IN  /\ Cardinality(at) = 1
                       /\ \A e \in at :
                              /\ Entries[e].document = docs[k].chunks[i + 1]
                              /\ Entries[e].metadata.document_id = docs[k].id
                              /\ Entries[e].metadata.chunk_index = i
        /\ (\A k, l \in 1..Len(docs) : k # l => docs[k].id # docs[l].id)
               => \A e, f \in 1..Len(Entries) : e # f => Entries[e].id # Entries[f].id

\* Two documents of two chunks each, indexed: the last entry is the second
\* chunk of the second document.
ChunkIdsAndIndexesWitness ==
    /\ IndexReturned
    /\ Len(docs) = 2
    /\ Len(Entries) = 4
    /\ Entries[4].id = "795b633511237c0161bfd6571b411cd1_1"
    /\ Entries[4].document = <<"b">>
    /\ Entries[4].metadata.chunk_index = 1

\* C15: indexing is a full rebuild: after a successful call the collection
\* holds exactly the chunk entries of the documents of that call, and no
\* entry of an earlier call.
FullRebuild ==
    IndexReturned =>
        /\ Len(Entries) = TotalChunks(docs)
        /\ \A e \in 1..Len(Entries) :
               \E k \in 1..Len(docs) :
                   \E i \in 0..(Len(docs[k].chunks) - 1) :
                       /\ Entries[e].id = ChunkId(docs[k], i)
                       /\ Entries[e].document = docs[k].chunks[i + 1]

\* A successful call on a collection that held an entry of a document that
\* is not in the new list.
FullRebuildWitness ==
    /\ IndexReturned
    /\ \E o \in 1..Len(old_store.collections[collection_name].entries) :
           \A k \in 1..Len(docs) :
               docs[k].id # old_store.collections[collection_name].entries[o].metadata.document_id

\* C17: index_documents with an empty list raises ValueError('No documents to
\* index') before any side effect: no directory is made, no collection is
\* deleted and none is created.
EmptyDocsNoSideEffect ==
    pc = "index_documents" /\ docs = <<>> =>
        /\ raised
        /\ error_message = "No documents to index"
        /\ store = old_store
        /\ store_calls = <<>>

\* The call with an empty list on a store whose collection has entries.
EmptyDocsNoSideEffectWitness ==
    /\ pc = "index_documents"
    /\ docs = <<>>
    /\ raised
    /\ Entries # <<>>

----------------------------------------------------------------------------
\* Vocabulary of the search properties.

SearchCalled == pc = "semantic_search"

SearchReturned == SearchCalled /\ ~raised

\* The last call queried the store.
Queried == \E c \in 1..Len(store_calls) : store_calls[c] = "query"

\* s is word, whatever the case of its letters; word is in lower case.
SameIgnoringCase(s, word) ==
    /\ Len(s) = Len(word)
    /\ \A i \in 1..Len(s) :
           \/ s[i] = word[i]
           \/ \E k \in 1..26 : LowerLetters[k] = word[i] /\ UpperLetters[k] = s[i]

\* The stored text reads as true.
ReadsAsTrue(s) ==
    \/ SameIgnoringCase(s, <<"t", "r", "u", "e">>)
    \/ SameIgnoringCase(s, <<"1">>)
    \/ SameIgnoringCase(s, <<"y", "e", "s">>)

\* The draft value of a frontmatter, when it has one.
HasDraft(d) == \E kv \in d : kv[1] = "draft"
DraftOf(d) == (CHOOSE kv \in d : kv[1] = "draft")[2]

\* The stored entries a result can come from: those of the collection
\* searched that carry its document id and chunk index.
EntriesOf(result) ==
    {e \in 1..Len(Entries) :
        /\ Entries[e].metadata.document_id = result.document_id
        /\ Entries[e].metadata.chunk_index = result.chunk_index}

----------------------------------------------------------------------------
\* C18: semantic_search validates in a fixed order: a query that is empty or
\* only whitespace raises 'Query cannot be empty' whatever the store holds and
\* without opening it; otherwise a missing store directory raises 'ChromaDB
\* not found'; otherwise a missing collection raises a 'not found' error; the
\* store is queried only when all three checks pass.
ValidationOrder ==
    SearchCalled =>
        IF NonWs(query) = <<>>
        THEN raised /\ error_message = "Query cannot be empty" /\ store_calls = <<>>
        ELSE IF ~store.chroma_path
        THEN raised /\ error_message = "ChromaDB not found" /\ ~Queried
        ELSE IF ~store.collections[collection_name].exists
        THEN raised /\ error_message = "Collection not found" /\ ~Queried
        ELSE ~raised /\ Queried

\* A whitespace-only query on a store whose collection has entries.
ValidationOrderWitness ==
    /\ SearchCalled
    /\ query = <<" ">>
    /\ Entries # <<>>
    /\ raised
    /\ error_message = "Query cannot be empty"

\* C19: every score is max(0, 1 - distance) for the distance the store
\* returned, so a distance from 0 to 2 gives a score from 0 to 1.
ScoreInUnitRange ==
    SearchReturned =>
        /\ Len(search_results) = Len(distances)
        /\ \A i \in 1..Len(search_results) :
               /\ search_results[i].score =
                      (IF distances[i] < DistanceSteps THEN DistanceSteps - distances[i] ELSE 0)
               /\ (0 <= distances[i] /\ distances[i] <= 2 * DistanceSteps)
                      => (0 <= search_results[i].score
                          /\ search_results[i].score <= DistanceSteps)

\* A result whose distance lies above 1 and within 2: the score is cut to 0.
ScoreInUnitRangeWitness ==
    /\ SearchReturned
    /\ \E i \in 1..Len(search_results) :
           /\ distances[i] > DistanceSteps
           /\ distances[i] <= 2 * DistanceSteps
           /\ search_results[i].score = 0

\* C20: the draft flag survives index and search: a document indexed with
\* draft True gives results with draft true, with draft False or without a
\* draft key results with draft false; the result's draft is true exactly
\* when the stored fm_draft value, in lower case, is 'true', '1' or 'yes'.
DraftRoundTrip ==
    SearchReturned =>
        \A i \in 1..Len(search_results) :
            LET result == search_results[i]
                from == indexed[collection_name]
            IN  /\ \E k \in 1..Len(from) : from[k].id = result.document_id
                /\ \A k \in 1..Len(from) :
                       from[k].id = result.document_id =>
                           LET d == from[k].frontmatter
                           IN  /\ HasDraft(d) /\ DraftOf(d) = BoolVal(TRUE) => result.draft
                               /\ HasDraft(d) /\ DraftOf(d) = BoolVal(FALSE) => ~result.draft
                               /\ ~HasDraft(d) => ~result.draft
                /\ EntriesOf(result) # {}
                /\ \A e \in EntriesOf(result) :
                       result.draft <=>
                           \E kv \in Entries[e].metadata.fm :
                               kv[1] = "fm_draft" /\ ReadsAsTrue(kv[2].s)

\* A result of a document that was indexed with draft True.
DraftRoundTripWitness ==
    /\ SearchReturned
    /\ search_results # <<>>
    /\ search_results[1].draft
    /\ HasDraft(indexed[collection_name][1].frontmatter)
    /\ DraftOf(indexed[collection_name][1].frontmatter) = BoolVal(TRUE)

\* --------------------------------------------------------------------------
\* The helpers of the chunker
\* --------------------------------------------------------------------------

ClausesCalled == pc = "_split_at_clauses"

Occurs(c, s) == \E i \in 1..Len(s) : s[i] = c

\* The delimiter class of a sentence: ';' when it has one, else ':' when it
\* has one, else ',' when it has one, else none ("").
DelimiterClass(s) ==
    IF Occurs(";", s) THEN ";"
    ELSE IF Occurs(":", s) THEN ":"
    ELSE IF Occurs(",", s) THEN ","
    ELSE ""

\* s with every delimiter of another class than d turned into a plain letter.
Inert(s, d) ==
    [i \in 1..Len(s) |-> IF s[i] \in {";", ":", ","} \ {d} THEN "a" ELSE s[i]]

\* C21: _split_at_clauses uses one delimiter class for the whole sentence,
\* the first of ';', ':', ',' that occurs anywhere in it. The sentence is cut
\* after every delimiter of that class (in the chunks such a delimiter is
\* followed by a space or ends its chunk), the delimiters of the other classes
\* count as plain characters (turning them into letters changes nothing else
\* in the result), and a sentence with no delimiter goes to the word split.
OneDelimiterClass ==
    ClausesCalled =>
        LET d == DelimiterClass(content)
            plain == split_at_clauses(Inert(content, d), max_chunk_size)
        IN  /\ raised = plain.raised
            /\ [k \in 1..Len(chunks) |-> Inert(chunks[k], d)] = plain.chunks
            /\ d # "" =>
                   \A k \in 1..Len(chunks) : \A i \in 1..(Len(chunks[k]) - 1) :
                       chunks[k][i] = d => chunks[k][i + 1] \in Whitespace
            /\ d = "" =>
                   LET words == split_at_words(content, max_chunk_size)
                   IN  raised = words.raised /\ chunks = words.chunks

\* A sentence with a comma before its semicolon, over the limit: it is cut at
\* the semicolon and a chunk still holds the comma between two letters.
OneDelimiterClassWitness ==
    /\ ClausesCalled
    /\ ~raised
    /\ max_chunk_size > 0
    /\ Len(content) > max_chunk_size
    /\ \E i, j \in 1..Len(content) :
           i < j /\ content[i] = "," /\ content[j] = ";"
    /\ Len(chunks) >= 2
    /\ \E k \in 1..Len(chunks) : \E i \in 1..(Len(chunks[k]) - 1) :
           chunks[k][i] = "," /\ chunks[k][i + 1] \notin Whitespace

\* The pieces of s between the occurrences of d, from position from on.
RECURSIVE PiecesBetween(_, _, _)
PiecesBetween(s, d, from) ==
    LET at == {i \in from..Len(s) : s[i] = d}
        first == CHOOSE i \in at : \A j \in at : i <= j
    IN  IF at = {} THEN <<SubSeq(s, from, Len(s))>>
        ELSE <<SubSeq(s, from, first - 1)>> \o PiecesBetween(s, d, first + 1)

\* What the clause split hands on for packing or word splitting: each piece
\* trimmed, the empty ones left out, d at the end of each but the last piece.
PiecesHandedOn(s, d) ==
    LET pieces == PiecesBetween(s, d, 1)
        handed(i) == IF Trim(pieces[i]) = <<>> THEN <<>>
                     ELSE IF i < Len(pieces) THEN <<Append(Trim(pieces[i]), d)>>
                     ELSE <<Trim(pieces[i])>>
        upto[i \in 0..Len(pieces)] ==
            IF i = 0 THEN <<>> ELSE upto[i - 1] \o handed(i)
    IN  upto[Len(pieces)]

\* C22: in _split_at_clauses the chosen delimiter is put back at the end of
\* every piece that is packed or handed to the word split, except the piece
\* after the last delimiter, which gets none: for limit > 0 the chunks hold,
\* in order, the characters of the trimmed pieces each followed by the
\* delimiter, and those of the final piece with nothing after them.
DelimiterReappended ==
    (ClausesCalled /\ ~raised /\ max_chunk_size > 0
        /\ DelimiterClass(content) # "") =>
        NonWs(Concat(chunks))
            = NonWs(Concat(PiecesHandedOn(content, DelimiterClass(content))))

\* A sentence of two non-empty pieces: the first chunk ends with the
\* delimiter, the last one does not.
DelimiterReappendedWitness ==
    /\ ClausesCalled
    /\ ~raised
    /\ max_chunk_size > 0
    /\ DelimiterClass(content) # ""
    /\ Len(PiecesHandedOn(content, DelimiterClass(content))) >= 2
    /\ Len(chunks) >= 2
    /\ chunks[1][Len(chunks[1])] = DelimiterClass(content)
    /\ chunks[Len(chunks)][Len(chunks[Len(chunks)])] # DelimiterClass(content)
    /\ content[Len(content)] \notin Whitespace \cup {DelimiterClass(content)}

SentencesCalled == pc = "_split_sentences"

\* Positions i..j of s are a sentence boundary: a run of whitespace with a
\* sentence terminator right before it and an uppercase letter right after.
IsBoundary(s, i, j) ==
    /\ 1 < i /\ i <= j /\ j < Len(s)
    /\ \A k \in i..j : s[k] \in Whitespace
    /\ s[i - 1] \in Terminators
    /\ s[j + 1] \in Uppercase

\* s from position from on, cut at its sentence boundaries, the boundary runs
\* left out.
RECURSIVE CutAtBoundaries(_, _)
CutAtBoundaries(s, from) ==
    LET starts == {i \in from..Len(s) : \E j \in i..Len(s) : IsBoundary(s, i, j)}
        i == CHOOSE a \in starts : \A b \in starts : a <= b
        j == CHOOSE e \in i..Len(s) : IsBoundary(s, i, e)
    IN  IF starts = {} THEN <<SubSeq(s, from, Len(s))>>
        ELSE <<SubSeq(s, from, i - 1)>> \o CutAtBoundaries(s, j + 1)

\* The pieces trimmed, the blank ones left out.
RECURSIVE TrimmedNonBlank(_)
TrimmedNonBlank(pieces) ==
    IF pieces = <<>> THEN <<>>
    ELSE (IF Trim(pieces[1]) = <<>> THEN <<>> ELSE <<Trim(pieces[1])>>)
         \o TrimmedNonBlank(Tail(pieces))

\* C26: _split_sentences cuts the text at each run of whitespace that has
\* '.', '!' or '?' right before it and an uppercase letter A-Z right after
\* it, takes the run out, and cuts nowhere else (whitespace followed by a
\* lowercase letter or any other character is no boundary); the pieces come
\* back trimmed and the empty ones are dropped.
SentenceBoundaries ==
    SentencesCalled => chunks = TrimmedNonBlank(CutAtBoundaries(content, 1))

\* A text with a terminator and whitespace before an uppercase letter and
\* before a lowercase one: cut at the first, left whole at the second.
SentenceBoundariesWitness ==
    /\ SentencesCalled
    /\ Len(chunks) = 2
    /\ \E i \in 2..(Len(content) - 1) :
           /\ content[i - 1] \in Terminators
           /\ content[i] \in Whitespace
           /\ content[i + 1] \in Uppercase
    /\ \E k \in 1..2 : \E i \in 2..(Len(chunks[k]) - 1) :
           /\ chunks[k][i - 1] \in Terminators
           /\ chunks[k][i] \in Whitespace
           /\ chunks[k][i + 1] \notin Uppercase \cup Whitespace

\* The sentences of a paragraph, trimmed.
SentencesOf(paragraph) == TrimmedNonBlank(CutAtBoundaries(Trim(paragraph), 1))

\* One paragraph, longer than the limit, all of whose sentences fit it: every
\* chunk is then made of buffered sentences.
PacksSentences ==
    /\ Called
    /\ max_chunk_size > 0
    /\ ~HasParagraphBreak(content)
    /\ Len(Trim(content)) > max_chunk_size
    /\ \A i \in 1..Len(SentencesOf(content)) :
           Len(SentencesOf(content)[i]) <= max_chunk_size

\* chunks[k..] are sentences[a..] packed greedily: each chunk is a run of
\* consecutive sentences joined by single spaces, and the sentence after the
\* run would not have fitted into the chunk.
RECURSIVE GreedyFrom(_, _, _, _, _)
GreedyFrom(sentences, a, list, k, limit) ==
    IF k > Len(list) THEN a > Len(sentences)
    ELSE \E b \in a..Len(sentences) :
             /\ join(SubSeq(sentences, a, b)) = list[k]
             /\ b < Len(sentences) =>
                    Len(list[k]) + 1 + Len(sentences[b + 1]) > limit
             /\ GreedyFrom(sentences, b + 1, list, k + 1, limit)

\* C23: inside an over-limit paragraph the sentences that fit the limit are
\* packed greedily: consecutive sentences are joined by single spaces while
\* the joined length stays within the limit, so for two consecutive chunks
\* made of buffered sentences, the length of the first plus one plus the
\* length of the first sentence of the second is over the limit.
GreedySentencePacking ==
    PacksSentences =>
        ~raised /\ GreedyFrom(SentencesOf(content), 1, chunks, 1, max_chunk_size)

\* Three sentences of which the first two share a chunk and the third, which
\* did not fit, has its own.
GreedySentencePackingWitness ==
    /\ PacksSentences
    /\ Len(SentencesOf(content)) = 3
    /\ Len(chunks) = 2
    /\ chunks[1] = join(SubSeq(SentencesOf(content), 1, 2))
    /\ chunks[2] = SentencesOf(content)[3]
    /\ Len(chunks[1]) + 1 + Len(chunks[2]) > max_chunk_size

\* Positions i..j of s are a whitespace-delimited word: a run of
\* non-whitespace characters with whitespace or an end of s on either side.
IsWordAt(s, i, j) ==
    /\ 1 <= i /\ i <= j /\ j <= Len(s)
    /\ \A k \in i..j : s[k] \notin Whitespace
    /\ i = 1 \/ s[i - 1] \in Whitespace
    /\ j = Len(s) \/ s[j + 1] \in Whitespace

\* w stands in s as it is, its characters side by side.
Within(w, s) ==
    \E a \in 1..(Len(s) - Len(w) + 1) : SubSeq(s, a, a + Len(w) - 1) = w

\* C24: the hard cut is the only case in which a word is broken: for
\* limit > 0, every whitespace-delimited word of the body that is no longer
\* than the limit stands whole inside one chunk, neither divided between two
\* chunks nor altered.
WordsKeptWhole ==
    Called /\ max_chunk_size > 0 =>
        \A i, j \in 1..Len(content) :
            (IsWordAt(content, i, j) /\ j - i + 1 <= max_chunk_size) =>
                \E k \in 1..Len(chunks) : Within(SubSeq(content, i, j), chunks[k])

\* C25: without a 'title' key, the heading title is the trimmed text of the
\* first line of the body that begins with exactly one '#' followed by
\* whitespace, and the text always comes from that same line; a line that
\* begins with '##' or with indentation is never taken as the heading, so a
\* body without such a line gives the filename without its extension.
HeadingFromItsLine ==
    (TitleCalled /\ ~HasTitle(metadata)) =>
        /\ FirstHeading(body).found => title = Trim(FirstHeading(body).text)
        /\ ~FirstHeading(body).found => title = WithoutExtension(filename)

\* C27: chunking is idempotent on its own output: for every body, every
\* limit > 0 and every chunk c of chunk_content(body, limit),
\* chunk_content(c, limit) is the one-element list [c].
ChunkingIdempotent ==
    (Called /\ max_chunk_size > 0 /\ ~raised) =>
        \A k \in 1..Len(chunks) :
            LET again == chunk_content(chunks[k], max_chunk_size)
            IN  ~again.raised /\ again.chunks = <<chunks[k]>>

\* An over-limit body cut into several chunks, one of them made of pieces
\* joined by a space; each chunk, chunked again, comes back alone.
ChunkingIdempotentWitness ==
    /\ Called
    /\ max_chunk_size > 0
    /\ ~raised
    /\ Len(content) > max_chunk_size
    /\ Len(chunks) >= 2
    /\ \E k \in 1..Len(chunks) : Occurs(" ", chunks[k])
    /\ \A k \in 1..Len(chunks) :
           chunk_content(chunks[k], max_chunk_size).chunks = <<chunks[k]>>

\* The last call failed while generating embeddings or adding the batch.
IndexFailedPartWay ==
    /\ pc \in {"index_documents", "rebuild_index"}
    /\ raised
    /\ error_message \in {"encode", "add"}

\* C28: index_documents is not atomic: the existing collection is deleted and
\* an empty one created before any embedding is generated or any entry
\* added, so when the embedding or the batch insert fails, the store is left
\* with an empty collection and none of the entries it held before the call.
IndexNotAtomic ==
    IndexFailedPartWay =>
        /\ store.collections[collection_name].exists
        /\ Entries = <<>>
        /\ Len(store_calls) >= 4
        /\ SubSeq(store_calls, 3, 4) = <<"delete_collection", "create_collection">>
        /\ \A c \in 1..4 : store_calls[c] # "add"

\* A batch insert that failed on a collection that held entries before the
\* call: they are gone.
IndexNotAtomicWitness ==
    /\ IndexFailedPartWay
    /\ error_message = "add"
    /\ old_store.collections[collection_name].entries # <<>>
    /\ Entries = <<>>

====
